---------------------------- MODULE Spec2Model ----------------------------
(***************************************************************************)
(* hash32() of american fuzzy lop (hash.h): the x86_64 variant (64-bit     *)
(* accumulator, 4-word unrolled loop, remainder loop, 64->32 fold) and the *)
(* 32-bit variant (MurmurHash3-like), as a step machine run by two calls.  *)
(*                                                                         *)
(* Machine integers are sequences of bytes, least significant byte first   *)
(* (a u32 has 4 bytes, a u64 has 8), so every operation wraps at the width *)
(* of its operands exactly as the C operation does.                        *)
(***************************************************************************)
EXTENDS Integers, Sequences, FiniteSets, TLC

(***************************************************************************)
(* Width-preserving machine arithmetic.                                    *)
(***************************************************************************)

\* The byte of x at place i (1 = least significant); 0 beyond the width.
Limb(x, i) == IF i \in 1..Len(x) THEN x[i] ELSE 0

\* A constant written as in the source, most significant byte first.
Hex(bytes) == [i \in 1..Len(bytes) |-> bytes[Len(bytes) + 1 - i]]

\* Integer conversion to a wider or narrower unsigned type.
Cast(x, w) == [i \in 1..w |-> Limb(x, i)]

\* A natural number below 2^31 as an unsigned integer of w bytes.
FromNat(n, w) == [i \in 1..w |-> IF i > 4 THEN 0 ELSE (n \div (256 ^ (i - 1))) % 256]

\* The value of an unsigned integer known to be below 2^24.
ToNat(x) == Limb(x, 1) + (256 * Limb(x, 2)) + (65536 * Limb(x, 3))

IsZero(x) == \A i \in 1..Len(x) : x[i] = 0

XorBit == [a \in 0..1 |-> [b \in 0..1 |-> (a + b) % 2]]

OrBit == [a \in 0..1 |-> [b \in 0..1 |-> IF a + b > 0 THEN 1 ELSE 0]]

RECURSIVE BitwiseN(_, _, _, _)
BitwiseN(op, a, b, n) ==
    IF n = 0 THEN 0
    ELSE op[a % 2][b % 2] + (2 * BitwiseN(op, a \div 2, b \div 2, n - 1))

XorNibble == [a \in 0..15 |-> [b \in 0..15 |-> BitwiseN(XorBit, a, b, 4)]]

OrNibble == [a \in 0..15 |-> [b \in 0..15 |-> BitwiseN(OrBit, a, b, 4)]]

XorByte(a, b) == (16 * XorNibble[a \div 16][b \div 16]) + XorNibble[a % 16][b % 16]

OrByte(a, b) == (16 * OrNibble[a \div 16][b \div 16]) + OrNibble[a % 16][b % 16]

\* a ^ b
Xor(a, b) == [i \in 1..Len(a) |-> XorByte(a[i], b[i])]

\* a | b
Or(a, b) == [i \in 1..Len(a) |-> OrByte(a[i], b[i])]

\* x << n, the bits shifted out at the top are lost
Shl(x, n) ==
    LET q == n \div 8
        r == n % 8
    IN  [i \in 1..Len(x) |->
            ((Limb(x, i - q) * (2 ^ r)) % 256) + (Limb(x, i - q - 1) \div (2 ^ (8 - r)))]

\* x >> n, zero filled (all operands are unsigned)
Shr(x, n) ==
    LET q == n \div 8
        r == n % 8
    IN  [i \in 1..Len(x) |->
            (Limb(x, i + q) \div (2 ^ r)) + ((Limb(x, i + q + 1) * (2 ^ (8 - r))) % 256)]

RECURSIVE AddFrom(_, _, _, _)
AddFrom(a, b, k, carry) ==
    IF k > Len(a) THEN << >>
    ELSE LET s == a[k] + b[k] + carry
         IN  <<s % 256>> \o AddFrom(a, b, k + 1, s \div 256)

\* a + b modulo 2^(8 * Len(a))
Add(a, b) == AddFrom(a, b, 1, 0)

RECURSIVE SubFrom(_, _, _, _)
SubFrom(a, b, k, borrow) ==
    IF k > Len(a) THEN << >>
    ELSE LET d == a[k] - b[k] - borrow
         IN  <<(d + 256) % 256>> \o SubFrom(a, b, k + 1, IF d < 0 THEN 1 ELSE 0)

\* a - b modulo 2^(8 * Len(a)): 0 - 1 wraps to the largest value
Sub(a, b) == SubFrom(a, b, 1, 0)

RECURSIVE ColSum(_, _, _, _)
ColSum(a, b, k, i) ==
    IF i > k THEN 0 ELSE (a[i] * b[k + 1 - i]) + ColSum(a, b, k, i + 1)

RECURSIVE MulFrom(_, _, _, _)
MulFrom(a, b, k, carry) ==
    IF k > Len(a) THEN << >>
    ELSE LET s == carry + ColSum(a, b, k, 1)
         IN  <<s % 256>> \o MulFrom(a, b, k + 1, s \div 256)

\* a * b modulo 2^(8 * Len(a))
Mul(a, b) == MulFrom(a, b, 1, 0)

RECURSIVE GeqFrom(_, _, _)
GeqFrom(a, b, k) ==
    IF k = 0 THEN TRUE
    ELSE IF a[k] # b[k] THEN a[k] > b[k]
    ELSE GeqFrom(a, b, k - 1)

\* a >= b, unsigned
Geq(a, b) == GeqFrom(a, b, Len(a))

RECURSIVE ModFrom(_, _, _, _)
ModFrom(x, m, k, r) ==
    IF k = 0 THEN r ELSE ModFrom(x, m, k - 1, ((r * 256) + x[k]) % m)

\* x % m for a small m, as a natural number
Mod(x, m) == ModFrom(x, m, Len(x), 0)

(***************************************************************************)
(* The program's constants and pure steps.                                 *)
(***************************************************************************)

\* static const u64 KECCAK_ROUNDS[5]
KECCAK_ROUNDS ==
    << Hex(<<\h42, \h8a, \h2f, \h98, \hd7, \h28, \hae, \h22>>),
       Hex(<<\h71, \h37, \h44, \h91, \h23, \hef, \h65, \hcd>>),
       Hex(<<\hb5, \hc0, \hfb, \hcf, \hec, \h4d, \h3b, \h2f>>),
       Hex(<<\he9, \hb5, \hdb, \ha5, \h81, \h89, \hdb, \hbc>>),
       Hex(<<\h39, \h56, \hc2, \h5b, \hf3, \h48, \hb5, \h38>>) >>

\* KECCAK_ROUNDS[i], C indexing from 0
KeccakRound(i) == KECCAK_ROUNDS[i + 1]

\* #define ROL64(x, n) ((x << n) | (x >> (64 - n)))
ROL64(x, n) == Or(Shl(x, n), Shr(x, 64 - n))

\* #define ROL32(_x, _r) ((((u32)(_x)) << (_r)) | (((u32)(_x)) >> (32 - (_r))))
ROL32(x, r) == Or(Shl(x, r), Shr(x, 32 - r))

\* The int constant 0x52dce729, converted to u64 by h1 *= 0x52dce729
WideMultiplier == Cast(Hex(<<\h52, \hdc, \he7, \h29>>), 8)

\* k1 ^= KECCAK_ROUNDS[a]; k1 = ROL64(k1, 21); k1 ^= KECCAK_ROUNDS[b];
WideMask(k, a, b) == Xor(ROL64(Xor(k, KeccakRound(a)), 21), KeccakRound(b))

\* Mutant: the statement h1 ^= k1 left out.
WideFoldNoData(h, k) == Mul(ROL64(h, 17), WideMultiplier)

\* h1 ^= k1; h1 = ROL64(h1, 17); h1 *= 0x52dce729;
WideFold(h, k) == Mul(ROL64(Xor(h, k), 17), WideMultiplier)

\* The five statements of the x86_64 finalization
FmixWide(h) ==
    LET a == Xor(h, Shr(h, 29))
        b == Mul(a, Hex(<<\hff, \h51, \haf, \hd7, \hed, \h55, \h8c, \hcd>>))
        c == Xor(b, Shr(b, 33))
        d == Mul(c, Hex(<<\hc4, \hce, \hb9, \hfe, \h1a, \h85, \hec, \h53>>))
    IN  Xor(d, Shr(d, 33))

\* return (u32)(h1 ^ (h1 >> 32));
FoldWide(h) == Cast(Xor(h, Shr(h, 32)), 4)

\* k1 *= 0xcc9e2d51; k1 = ROL32(k1, 15); k1 *= 0x1b873593;
NarrowMask(k) ==
    Mul(ROL32(Mul(k, Hex(<<\hcc, \h9e, \h2d, \h51>>)), 15),
        Hex(<<\h1b, \h87, \h35, \h93>>))

\* h1 ^= k1; h1 = ROL32(h1, 13); h1 = h1 * 5 + 0xe6546b64;
NarrowFold(h, k) ==
    Add(Mul(ROL32(Xor(h, k), 13), FromNat(5, 4)), Hex(<<\he6, \h54, \h6b, \h64>>))

\* Mutant: h1 = h1 >> 16 for the first h1 ^= h1 >> 16.
FmixNarrowShiftOnly(h) ==
    LET a == Shr(h, 16)
        b == Mul(a, Hex(<<\h85, \heb, \hca, \h6b>>))
        c == Xor(b, Shr(b, 13))
        d == Mul(c, Hex(<<\hc2, \hb2, \hae, \h35>>))
    IN  Xor(d, Shr(d, 16))

\* The five statements of the 32-bit finalization
FmixNarrow(h) ==
    LET a == Xor(h, Shr(h, 16))
        b == Mul(a, Hex(<<\h85, \heb, \hca, \h6b>>))
        c == Xor(b, Shr(b, 13))
        d == Mul(c, Hex(<<\hc2, \hb2, \hae, \h35>>))
    IN  Xor(d, Shr(d, 16))

\* Mutant: u64 h1 = len, the seed left out.
InitialAccumulatorNoSeed(sd, ln, w) == Cast(ln, w)

\* u64 h1 = seed ^ len;  (the XOR is done in u32, then widened)
InitialAccumulator(sd, ln, w) == Cast(Xor(sd, ln), w)

\* The constants of the unrolled loop's j-th block (j = 0..3)
UnrolledPair(j) == << <<0, 1>>, <<2, 3>>, <<4, 0>>, <<1, 2>> >>[j + 1]

\* Mutant: the indices taken from len as it was before the decrement.
RemainderPairBeforeDecrement(ln) ==
    <<Mod(Add(ln, FromNat(1, 4)), 5), Mod(Add(ln, FromNat(2, 4)), 5)>>

\* KECCAK_ROUNDS[len % 5] and KECCAK_ROUNDS[(len + 1) % 5], len already decremented
RemainderPair(ln) == <<Mod(ln, 5), Mod(Add(ln, FromNat(1, 4)), 5)>>

(***************************************************************************)
(* The build and the caller's memory.                                      *)
(***************************************************************************)

\* The targets the #ifdef selects between: __x86_64__, and any other target
\* of either byte order.
Builds == {"x86_64", "le32", "be32"}

\* sizeof(u64) on the x86_64 path, sizeof(u32) on the other
Chunk(b) == IF b = "x86_64" THEN 8 ELSE 4

\* Mutant: the 32-bit path's len >>= 2 on the x86_64 path too.
ChunkShiftCopied(b) == 2

\* len >>= 3 on the x86_64 path, len >>= 2 on the other
ChunkShift(b) == IF b = "x86_64" THEN 3 ELSE 2

\* The largest number of 8-byte words in a buffer of the model.
MaxWords == 5

LongLen == (8 * MaxWords) + 3

Pattern(i) == ((37 * i) + 11) % 256

\* The caller's buffers. longB differs from long in the last three bytes alone.
Buffers ==
    [ zero8 |-> [i \in 1..8 |-> 0],
      one8  |-> [i \in 1..8 |-> IF i = 1 THEN 1 ELSE 0],
      two8  |-> [i \in 1..8 |-> IF i = 1 THEN 2 ELSE 0],
      long  |-> [i \in 1..LongLen |-> Pattern(i)],
      longB |-> [i \in 1..LongLen |->
                    IF i > LongLen - 3 THEN 255 - Pattern(i) ELSE Pattern(i)] ]

BufIds == DOMAIN Buffers

Lengths == {8 * n : n \in 0..MaxWords} \cup {3, LongLen}

Seeds ==
    { Hex(<<0, 0, 0, 0>>), Hex(<<0, 0, 0, 1>>), Hex(<<\h80, 0, 0, 0>>) }

\* What a read outside the buffer's storage may return.
JunkBytes == {0, 255}

Calls == {1, 2}

VARIABLES
    build,      \* the target the header was compiled for
    mem,        \* the callers' buffers: buffer -> its bytes
    key,        \* per call: the buffer passed as key
    length,     \* per call: the len argument as passed
    seed,       \* per call: the seed argument
    pc,         \* per call: where the call is
    len,        \* per call: the local len (u32)
    data,       \* per call: data - key, in words
    h1,         \* per call: the accumulator
    k1,         \* per call: the last word mixed
    reads,      \* per call: the word offsets read, in order
    rc,         \* per call: the KECCAK_ROUNDS indices used, per word read
    result      \* per call: the value returned

vars == <<build, mem, key, length, seed, pc, len, data, h1, k1, reads, rc, result>>

args == <<build, mem, key, length, seed>>

\* Mutant: k1 = *++data, the pointer stepped before the read.
LoadWordPreIncrement(buf, d, b, junk) ==
    LET w == Chunk(b)
        at(o) == IF o \in 1..Len(buf) THEN buf[o] ELSE junk
    IN  [i \in 1..w |->
            IF b = "be32" THEN at((w * (d + 1)) + w + 1 - i) ELSE at((w * (d + 1)) + i)]

\* *data for a pointer d words past key: the bytes at offsets w*d .. w*d + w - 1
\* in the target's byte order; a byte outside the buffer's storage is junk.
LoadWord(buf, d, b, junk) ==
    LET w == Chunk(b)
        at(o) == IF o \in 1..Len(buf) THEN buf[o] ELSE junk
    IN  [i \in 1..w |-> IF b = "be32" THEN at((w * d) + w + 1 - i) ELSE at((w * d) + i)]

\* The values an out-of-storage byte may take; one value when the word is inside.
JunkFor(buf, d, b) ==
    IF Chunk(b) * (d + 1) <= Len(buf) THEN {0} ELSE JunkBytes

(***************************************************************************)
(* The calls.                                                              *)
(***************************************************************************)

\* The argument triples a caller may pass: len never exceeds the storage.
Inputs(keys, lengths, seeds) ==
    {in \in [key : keys, length : lengths, seed : seeds] :
        in.length <= Len(Buffers[in.key])}

\* Two calls about to start with arguments from `ins`, compiled for some target.
Start(ins) ==
    /\ build \in Builds
    /\ mem = Buffers
    /\ \E a \in [Calls -> ins] :
          /\ key = [p \in Calls |-> a[p].key]
          /\ length = [p \in Calls |-> a[p].length]
          /\ seed = [p \in Calls |-> a[p].seed]
          /\ len = [p \in Calls |-> FromNat(a[p].length, 4)]
    /\ pc = [p \in Calls |-> "call"]
    /\ data = [p \in Calls |-> 0]
    /\ h1 = [p \in Calls |-> FromNat(0, Chunk(build))]
    /\ k1 = [p \in Calls |-> FromNat(0, Chunk(build))]
    /\ reads = [p \in Calls |-> << >>]
    /\ rc = [p \in Calls |-> << >>]
    /\ result = [p \in Calls |-> FromNat(0, 4)]

Init == Start(Inputs(BufIds, Lengths, Seeds))

\* Mutant: the word count rounded up, len = (len + 7) >> 3, so that a tail
\* shorter than a word is read as one more word.
WideEnterRoundUp(p) ==
    /\ build = "x86_64"
    /\ pc[p] = "call"
    /\ h1' = [h1 EXCEPT ![p] = InitialAccumulator(seed[p], len[p], 8)]
    /\ len' = [len EXCEPT ![p] = Shr(Add(len[p], FromNat(7, 4)), 3)]
    /\ data' = [data EXCEPT ![p] = 0]
    /\ pc' = [pc EXCEPT ![p] = "unroll"]
    /\ UNCHANGED <<args, k1, reads, rc, result>>

\* x86_64: const u64* data = key; u64 h1 = seed ^ len; len >>= 3;
WideEnter(p) ==
    /\ build = "x86_64"
    /\ pc[p] = "call"
    /\ h1' = [h1 EXCEPT ![p] = InitialAccumulator(seed[p], len[p], 8)]
    /\ len' = [len EXCEPT ![p] = Shr(len[p], ChunkShift(build))]
    /\ data' = [data EXCEPT ![p] = 0]
    /\ pc' = [pc EXCEPT ![p] = "unroll"]
    /\ UNCHANGED <<args, k1, reads, rc, result>>

\* while (len >= 4)
WideUnrollTest(p) ==
    /\ build = "x86_64"
    /\ pc[p] = "unroll"
    /\ pc' = [pc EXCEPT ![p] = IF Geq(len[p], FromNat(4, 4)) THEN "u0" ELSE "rem"]
    /\ UNCHANGED <<args, len, data, h1, k1, reads, rc, result>>

UnrolledBlock == [u0 |-> 0, u1 |-> 1, u2 |-> 2, u3 |-> 3]

UnrolledNext == [u0 |-> "u1", u1 |-> "u2", u2 |-> "u3", u3 |-> "unroll"]

\* One of the four blocks of the unrolled body: k1 = *data++, the masking, the
\* fold; the fourth block is followed by len -= 4.
WideUnrolledWord(p) ==
    /\ build = "x86_64"
    /\ pc[p] \in DOMAIN UnrolledBlock
    /\ \E junk \in JunkFor(mem[key[p]], data[p], build) :
         LET j == UnrolledBlock[pc[p]]
             ab == UnrolledPair(j)
             k == WideMask(LoadWord(mem[key[p]], data[p], build, junk), ab[1], ab[2])
         IN  /\ k1' = [k1 EXCEPT ![p] = k]
             /\ h1' = [h1 EXCEPT ![p] = WideFold(h1[p], k)]
             /\ rc' = [rc EXCEPT ![p] = Append(rc[p], ab)]
             /\ len' = [len EXCEPT ![p] =
                           IF j = 3 THEN Sub(len[p], FromNat(4, 4)) ELSE len[p]]
    /\ reads' = [reads EXCEPT ![p] = Append(reads[p], data[p])]
    /\ data' = [data EXCEPT ![p] = data[p] + 1]
    /\ pc' = [pc EXCEPT ![p] = UnrolledNext[pc[p]]]
    /\ UNCHANGED <<args, result>>

\* Mutant: while (--len), the decrement before the test.
WideRemTestPreDecrement(p) ==
    /\ build = "x86_64"
    /\ pc[p] = "rem"
    /\ pc' = [pc EXCEPT ![p] =
                 IF IsZero(Sub(len[p], FromNat(1, 4))) THEN "final" ELSE "remword"]
    /\ len' = [len EXCEPT ![p] = Sub(len[p], FromNat(1, 4))]
    /\ UNCHANGED <<args, data, h1, k1, reads, rc, result>>

\* while (len--): the test reads len, and len is decremented whatever the
\* outcome, so the failing test leaves len = 0xFFFFFFFF.
WideRemTest(p) ==
    /\ build = "x86_64"
    /\ pc[p] = "rem"
    /\ pc' = [pc EXCEPT ![p] = IF IsZero(len[p]) THEN "final" ELSE "remword"]
    /\ len' = [len EXCEPT ![p] = Sub(len[p], FromNat(1, 4))]
    /\ UNCHANGED <<args, data, h1, k1, reads, rc, result>>

\* The body of the remainder loop.
WideRemWord(p) ==
    /\ build = "x86_64"
    /\ pc[p] = "remword"
    /\ \E junk \in JunkFor(mem[key[p]], data[p], build) :
         LET ab == RemainderPair(len[p])
             k == WideMask(LoadWord(mem[key[p]], data[p], build, junk), ab[1], ab[2])
         IN  /\ k1' = [k1 EXCEPT ![p] = k]
             /\ h1' = [h1 EXCEPT ![p] = WideFold(h1[p], k)]
             /\ rc' = [rc EXCEPT ![p] = Append(rc[p], ab)]
    /\ reads' = [reads EXCEPT ![p] = Append(reads[p], data[p])]
    /\ data' = [data EXCEPT ![p] = data[p] + 1]
    /\ pc' = [pc EXCEPT ![p] = "rem"]
    /\ UNCHANGED <<args, len, result>>

\* The finalization and return (u32)(h1 ^ (h1 >> 32));
WideFinish(p) ==
    /\ build = "x86_64"
    /\ pc[p] = "final"
    /\ h1' = [h1 EXCEPT ![p] = FmixWide(h1[p])]
    /\ result' = [result EXCEPT ![p] = FoldWide(FmixWide(h1[p]))]
    /\ pc' = [pc EXCEPT ![p] = "done"]
    /\ UNCHANGED <<args, len, data, k1, reads, rc>>

\* 32-bit: const u32* data = key; u32 h1 = seed ^ len; len >>= 2;
NarrowEnter(p) ==
    /\ build # "x86_64"
    /\ pc[p] = "call"
    /\ h1' = [h1 EXCEPT ![p] = InitialAccumulator(seed[p], len[p], 4)]
    /\ len' = [len EXCEPT ![p] = Shr(len[p], ChunkShift(build))]
    /\ data' = [data EXCEPT ![p] = 0]
    /\ pc' = [pc EXCEPT ![p] = "loop"]
    /\ UNCHANGED <<args, k1, reads, rc, result>>

\* Mutant: while (--len), the decrement before the test.
NarrowTestPreDecrement(p) ==
    /\ build # "x86_64"
    /\ pc[p] = "loop"
    /\ pc' = [pc EXCEPT ![p] =
                 IF IsZero(Sub(len[p], FromNat(1, 4))) THEN "final" ELSE "word"]
    /\ len' = [len EXCEPT ![p] = Sub(len[p], FromNat(1, 4))]
    /\ UNCHANGED <<args, data, h1, k1, reads, rc, result>>

\* while (len--)
NarrowTest(p) ==
    /\ build # "x86_64"
    /\ pc[p] = "loop"
    /\ pc' = [pc EXCEPT ![p] = IF IsZero(len[p]) THEN "final" ELSE "word"]
    /\ len' = [len EXCEPT ![p] = Sub(len[p], FromNat(1, 4))]
    /\ UNCHANGED <<args, data, h1, k1, reads, rc, result>>

\* Mutant: static u32 h1, one accumulator shared by every call.
NarrowWordStaticAcc(p) ==
    /\ build # "x86_64"
    /\ pc[p] = "word"
    /\ \E junk \in JunkFor(mem[key[p]], data[p], build) :
         LET k == NarrowMask(LoadWord(mem[key[p]], data[p], build, junk))
         IN  /\ k1' = [k1 EXCEPT ![p] = k]
             /\ h1' = [q \in Calls |-> NarrowFold(h1[p], k)]
    /\ reads' = [reads EXCEPT ![p] = Append(reads[p], data[p])]
    /\ data' = [data EXCEPT ![p] = data[p] + 1]
    /\ pc' = [pc EXCEPT ![p] = "loop"]
    /\ UNCHANGED <<args, len, rc, result>>

\* The body of the 32-bit loop.
NarrowWord(p) ==
    /\ build # "x86_64"
    /\ pc[p] = "word"
    /\ \E junk \in JunkFor(mem[key[p]], data[p], build) :
         LET k == NarrowMask(LoadWord(mem[key[p]], data[p], build, junk))
         IN  /\ k1' = [k1 EXCEPT ![p] = k]
             /\ h1' = [h1 EXCEPT ![p] = NarrowFold(h1[p], k)]
    /\ reads' = [reads EXCEPT ![p] = Append(reads[p], data[p])]
    /\ data' = [data EXCEPT ![p] = data[p] + 1]
    /\ pc' = [pc EXCEPT ![p] = "loop"]
    /\ UNCHANGED <<args, len, rc, result>>

\* The finalization and return h1;
NarrowFinish(p) ==
    /\ build # "x86_64"
    /\ pc[p] = "final"
    /\ h1' = [h1 EXCEPT ![p] = FmixNarrow(h1[p])]
    /\ result' = [result EXCEPT ![p] = FmixNarrow(h1[p])]
    /\ pc' = [pc EXCEPT ![p] = "done"]
    /\ UNCHANGED <<args, len, data, k1, reads, rc>>

(***************************************************************************)
(* hash32 run from call to return with nothing else running.               *)
(***************************************************************************)

RECURSIVE WideRemainderLoop(_, _, _, _)
WideRemainderLoop(buf, h, ln, d) ==
    IF IsZero(ln) THEN h
    ELSE LET l == Sub(ln, FromNat(1, 4))
             ab == RemainderPair(l)
             k == WideMask(LoadWord(buf, d, "x86_64", 0), ab[1], ab[2])
         IN  WideRemainderLoop(buf, WideFold(h, k), l, d + 1)

RECURSIVE WideUnrolledBlocks(_, _, _, _)
WideUnrolledBlocks(buf, h, d, j) ==
    IF j = 4 THEN h
    ELSE LET ab == UnrolledPair(j)
             k == WideMask(LoadWord(buf, d + j, "x86_64", 0), ab[1], ab[2])
         IN  WideUnrolledBlocks(buf, WideFold(h, k), d, j + 1)

RECURSIVE WideUnrolledLoop(_, _, _, _)
WideUnrolledLoop(buf, h, ln, d) ==
    IF Geq(ln, FromNat(4, 4))
    THEN WideUnrolledLoop(buf, WideUnrolledBlocks(buf, h, d, 0),
                          Sub(ln, FromNat(4, 4)), d + 4)
    ELSE WideRemainderLoop(buf, h, ln, d)

RECURSIVE NarrowLoop(_, _, _, _, _)
NarrowLoop(b, buf, h, ln, d) ==
    IF IsZero(ln) THEN h
    ELSE NarrowLoop(b, buf, NarrowFold(h, NarrowMask(LoadWord(buf, d, b, 0))),
                    Sub(ln, FromNat(1, 4)), d + 1)

\* hash32(key, len, seed) as compiled for target b, key pointing at buf
Hash32(b, buf, ln, sd) ==
    LET l == FromNat(ln, 4)
        h == InitialAccumulator(sd, l, Chunk(b))
        n == Shr(l, ChunkShift(b))
    IN  IF b = "x86_64"
        THEN FoldWide(FmixWide(WideUnrolledLoop(buf, h, n, 0)))
        ELSE FmixNarrow(NarrowLoop(b, buf, h, n, 0))

\* A caller that makes its calls one after the other.
Turn(p) == \A q \in Calls : q < p => pc[q] = "done"

Next ==
    \E p \in Calls :
        \/ Turn(p) /\ WideEnter(p)
        \/ WideUnrollTest(p)
        \/ WideUnrolledWord(p)
        \/ WideRemTest(p)
        \/ WideRemWord(p)
        \/ WideFinish(p)
        \/ Turn(p) /\ NarrowEnter(p)
        \/ NarrowTest(p)
        \/ NarrowWord(p)
        \/ NarrowFinish(p)

Spec == Init /\ [][Next]_vars

\* Two callers on two threads: the steps of their calls interleave freely.
InitConc ==
    Start(Inputs({"long", "longB"}, {0, LongLen}, Seeds))

NextConc ==
    \E p \in Calls :
        \/ WideEnter(p)
        \/ WideUnrollTest(p)
        \/ WideUnrolledWord(p)
        \/ WideRemTest(p)
        \/ WideRemWord(p)
        \/ WideFinish(p)
        \/ NarrowEnter(p)
        \/ NarrowTest(p)
        \/ NarrowWord(p)
        \/ NarrowFinish(p)

SpecConc == InitConc /\ [][NextConc]_vars

(***************************************************************************)
(* Vocabulary of the properties.                                           *)
(***************************************************************************)

Done(p) == pc[p] = "done"

\* floor(len / chunk) for the len passed
Words(p) == length[p] \div Chunk(build)

\* The bytes the caller declared: offsets [0, len)
Contents(p) == SubSeq(mem[key[p]], 1, length[p])

\* The bytes of the full chunks: offsets [0, chunk * floor(len / chunk))
FullChunks(p) == SubSeq(mem[key[p]], 1, Chunk(build) * Words(p))

\* The pc values inside a mixing loop's body
InBody == {"u0", "u1", "u2", "u3", "remword", "word"}

Ascending(n) == [i \in 1..n |-> i - 1]

(***************************************************************************)
(* C1: every word hash32 reads lies wholly inside byte offsets             *)
(* [0, chunk * floor(len / chunk)), which is inside [0, len): no byte at   *)
(* or beyond len is touched, whether len is a multiple of the chunk size   *)
(* or not, on either path.                                                 *)
(***************************************************************************)
C1_ReadsInsideBuffer ==
    \A p \in Calls : \A i \in 1..Len(reads[p]) :
        /\ reads[p][i] >= 0
        /\ Chunk(build) * (reads[p][i] + 1) <= Chunk(build) * Words(p)
        /\ Chunk(build) * Words(p) <= length[p]
        /\ length[p] <= Len(mem[key[p]])

\* A returned x86_64 call on a buffer of exactly len bytes, len not a multiple
\* of 8, that went through the unrolled loop and the remainder loop.
C1_Witness ==
    \E p \in Calls :
        /\ build = "x86_64"
        /\ Done(p)
        /\ length[p] = Len(mem[key[p]])
        /\ length[p] % 8 # 0
        /\ Len(reads[p]) > 4

(***************************************************************************)
(* C2: two calls given the same buffer contents, the same length and the   *)
(* same seed return the same value, on every path.                         *)
(***************************************************************************)
C2_Deterministic ==
    \A p, q \in Calls :
        ( /\ Done(p) /\ Done(q)
          /\ Contents(p) = Contents(q)
          /\ length[p] = length[q]
          /\ seed[p] = seed[q] )
        => result[p] = result[q]

\* Two returned calls on two different buffers holding the same len > 0 bytes.
C2_Witness ==
    /\ Done(1) /\ Done(2)
    /\ key[1] # key[2]
    /\ Contents(1) = Contents(2)
    /\ length[1] = length[2] /\ length[1] > 8
    /\ seed[1] = seed[2]
    /\ result[1] = result[2]

(***************************************************************************)
(* C3: for a length that is not a multiple of the chunk size, two buffers  *)
(* that agree on their first chunk * floor(len / chunk) bytes give the     *)
(* same result for the same seed, whatever their remaining len mod chunk   *)
(* bytes are.                                                              *)
(***************************************************************************)
C3_TailIgnored ==
    \A p, q \in Calls :
        ( /\ Done(p) /\ Done(q)
          /\ length[p] = length[q]
          /\ length[p] % Chunk(build) # 0
          /\ seed[p] = seed[q]
          /\ FullChunks(p) = FullChunks(q) )
        => result[p] = result[q]

\* Two returned calls whose buffers differ, in the tail bytes alone, after
\* at least one full chunk.
C3_Witness ==
    /\ Done(1) /\ Done(2)
    /\ length[1] = length[2]
    /\ length[1] % Chunk(build) # 0
    /\ seed[1] = seed[2]
    /\ Words(1) > 0
    /\ FullChunks(1) = FullChunks(2)
    /\ Contents(1) # Contents(2)

(***************************************************************************)
(* C4: a call with length 0 never enters the body of a mixing loop and     *)
(* reads no word; it returns the finalization (and, on x86_64, the fold)   *)
(* of the accumulator initialised to the seed alone, so two such calls     *)
(* with the same seed agree whatever buffer each was given.                *)
(***************************************************************************)
C4_ZeroLength ==
    \A p \in Calls :
        length[p] = 0 =>
            /\ pc[p] \notin InBody
            /\ reads[p] = << >>
            /\ data[p] = 0
            /\ Done(p) =>
                  /\ result[p] = IF build = "x86_64"
                                 THEN FoldWide(FmixWide(Cast(seed[p], 8)))
                                 ELSE FmixNarrow(seed[p])
                  /\ \A q \in Calls :
                        (Done(q) /\ length[q] = 0 /\ seed[q] = seed[p])
                        => result[q] = result[p]

\* Two returned calls with length 0 and the same seed on different buffers.
C4_Witness ==
    /\ Done(1) /\ Done(2)
    /\ length[1] = 0 /\ length[2] = 0
    /\ key[1] # key[2]
    /\ mem[key[1]] # mem[key[2]]
    /\ seed[1] = seed[2]


(***************************************************************************)
(* C5: when length is an exact multiple of the chunk size the call         *)
(* returns after a number of steps fixed by length/chunk, having read      *)
(* exactly the words 0 .. length/chunk - 1, each once and in ascending     *)
(* order (on x86_64 across the unrolled loop and the remainder loop        *)
(* together); the exit of the last loop leaves the local len wrapped to    *)
(* 0xFFFFFFFF.                                                             *)
(***************************************************************************)
C5_ReadsSoFar(p) ==
    /\ reads[p] = Ascending(Len(reads[p]))
    /\ Len(reads[p]) = data[p]
    /\ Len(reads[p]) <= Words(p)
    /\ pc[p] \in {"final", "done"} =>
          /\ Len(reads[p]) = Words(p)
          /\ len[p] = Hex(<<\hff, \hff, \hff, \hff>>)

\* The steps from the test of the x86_64 unrolled loop, n words to go, to the return.
C5_FromUnroll(n) == (5 * (n \div 4)) + (2 * (n % 4)) + 3

\* The steps from the test of a while (len--) loop, n words to go, to the return.
C5_FromTest(n) == (2 * n) + 2

\* The steps the call p is away from its return.
C5_StepsLeft(p) ==
    CASE pc[p] = "done" -> 0
      [] pc[p] = "final" -> 1
      [] pc[p] = "call" ->
            IF build = "x86_64" THEN 1 + C5_FromUnroll(Words(p))
            ELSE 1 + C5_FromTest(Words(p))
      [] pc[p] = "unroll" -> C5_FromUnroll(ToNat(len[p]))
      [] pc[p] \in DOMAIN UnrolledBlock ->
            (4 - UnrolledBlock[pc[p]]) + C5_FromUnroll(ToNat(len[p]) - 4)
      [] pc[p] \in {"rem", "loop"} -> C5_FromTest(ToNat(len[p]))
      [] pc[p] \in {"remword", "word"} -> 1 + C5_FromTest(ToNat(len[p]))

C5_EveryWordOnce ==
    /\ [](\A p \in Calls : length[p] % Chunk(build) = 0 => C5_ReadsSoFar(p))
    /\ [][\A p \in Calls :
             (length[p] % Chunk(build) = 0 /\ pc'[p] # pc[p])
             => C5_StepsLeft(p)' = C5_StepsLeft(p) - 1]_vars

\* A returned x86_64 call of five words: one pass of the unrolled loop and
\* one of the remainder loop.
C5_Witness ==
    \E p \in Calls :
        /\ build = "x86_64"
        /\ Done(p)
        /\ length[p] = 40
        /\ reads[p] = <<0, 1, 2, 3, 4>>

(***************************************************************************)
(* C6: for a buffer of eight 0x00 bytes and length 8, seed 0 and seed 1    *)
(* give different results.                                                 *)
(***************************************************************************)
C6_SeedChangesResult ==
    \A p, q \in Calls :
        ( /\ Done(p) /\ Done(q)
          /\ Contents(p) = <<0, 0, 0, 0, 0, 0, 0, 0>>
          /\ Contents(q) = <<0, 0, 0, 0, 0, 0, 0, 0>>
          /\ seed[p] = Hex(<<0, 0, 0, 0>>)
          /\ seed[q] = Hex(<<0, 0, 0, 1>>) )
        => result[p] # result[q]

C6_Witness ==
    /\ Done(1) /\ Done(2)
    /\ Contents(1) = <<0, 0, 0, 0, 0, 0, 0, 0>>
    /\ Contents(2) = <<0, 0, 0, 0, 0, 0, 0, 0>>
    /\ seed[1] = Hex(<<0, 0, 0, 0>>)
    /\ seed[2] = Hex(<<0, 0, 0, 1>>)
    /\ result[1] # result[2]

(***************************************************************************)
(* C7: with length 8 and seed 0, the buffers [0x01,0,0,0,0,0,0,0] and      *)
(* [0x02,0,0,0,0,0,0,0] give different results.                            *)
(***************************************************************************)
C7_ByteChangesResult ==
    \A p, q \in Calls :
        ( /\ Done(p) /\ Done(q)
          /\ Contents(p) = <<1, 0, 0, 0, 0, 0, 0, 0>>
          /\ Contents(q) = <<2, 0, 0, 0, 0, 0, 0, 0>>
          /\ seed[p] = Hex(<<0, 0, 0, 0>>)
          /\ seed[q] = Hex(<<0, 0, 0, 0>>) )
        => result[p] # result[q]

C7_Witness ==
    /\ Done(1) /\ Done(2)
    /\ Contents(1) = <<1, 0, 0, 0, 0, 0, 0, 0>>
    /\ Contents(2) = <<2, 0, 0, 0, 0, 0, 0, 0>>
    /\ seed[1] = Hex(<<0, 0, 0, 0>>)
    /\ seed[2] = Hex(<<0, 0, 0, 0>>)
    /\ result[1] # result[2]

(***************************************************************************)
(* C8: with the steps of two calls interleaved in any order, on the same   *)
(* or on different buffers, each call returns the value hash32 returns     *)
(* when run alone on its arguments, and every step leaves the buffers and  *)
(* the other call's variables as they were.                                *)
(***************************************************************************)
C8_Locals(p) == <<pc[p], len[p], data[p], h1[p], k1[p], reads[p], rc[p], result[p]>>

C8_StepIsPrivate ==
    /\ UNCHANGED args
    /\ \A p, q \in Calls : (p # q /\ pc'[p] # pc[p]) => UNCHANGED C8_Locals(q)

C8_Reentrant ==
    /\ [](\A p \in Calls :
            Done(p) => result[p] = Hash32(build, mem[key[p]], length[p], seed[p]))
    /\ [][C8_StepIsPrivate]_vars

\* Both calls are under way on the same buffer, each with words already mixed:
\* their steps have interleaved.
C8_Witness ==
    /\ key[1] = key[2]
    /\ pc[1] \in InBody /\ pc[2] \in InBody
    /\ data[1] > 1 /\ data[2] > 1

(***************************************************************************)
(* C9 as stated: on x86_64 the pair of KECCAK_ROUNDS entries a word is     *)
(* mixed with is determined by the word's position alone, so two calls     *)
(* use the same pair at every position both have reached.                  *)
(***************************************************************************)
C9_PairByPositionAlone ==
    \A p, q \in Calls : \A i \in 1..Len(rc[p]) :
        i <= Len(rc[q]) => rc[p][i] = rc[q][i]

(***************************************************************************)
(* C9 amended: on x86_64 the pair is determined by the word's position i   *)
(* and the number of words n = floor(len / 8): a word of the unrolled loop *)
(* (i < 4 * floor(n / 4)) gets the pair of its place i mod 4 in the block, *)
(* (0,1), (2,3), (4,0), (1,2); a word of the remainder loop gets           *)
(* (r mod 5, (r + 1) mod 5) for r = n - 1 - i, the words still to come.    *)
(***************************************************************************)
C9_ExpectedPair(i, n) ==
    IF i < 4 * (n \div 4)
    THEN CASE i % 4 = 0 -> <<0, 1>>
           [] i % 4 = 1 -> <<2, 3>>
           [] i % 4 = 2 -> <<4, 0>>
           [] i % 4 = 3 -> <<1, 2>>
    ELSE <<(n - 1 - i) % 5, (n - i) % 5>>

C9_PairByPositionAndCount ==
    \A p \in Calls :
        /\ build # "x86_64" => rc[p] = << >>
        /\ build = "x86_64" =>
              /\ Len(rc[p]) = Len(reads[p])
              /\ \A i \in 1..Len(rc[p]) : rc[p][i] = C9_ExpectedPair(i - 1, Words(p))

\* Two returned x86_64 calls, of one word and of two words: position 0 got
\* (0,1) in the first and (1,2) in the second.
C9_Witness ==
    /\ build = "x86_64"
    /\ Done(1) /\ Done(2)
    /\ Words(1) = 1 /\ Words(2) = 2
    /\ rc[1][1] = <<0, 1>>
    /\ rc[2][1] = <<1, 2>>

(***************************************************************************)
(* C10: for the same buffer contents and length, two calls started with    *)
(* different seeds hold different accumulators after the same number of    *)
(* steps, up to and including the finalization; on the 32-bit path, which  *)
(* returns the accumulator, their results differ.                          *)
(***************************************************************************)
C10_SeedInjective ==
    \A p, q \in Calls :
        ( /\ pc[p] = pc[q] /\ pc[p] # "call"
          /\ data[p] = data[q]
          /\ Contents(p) = Contents(q)
          /\ length[p] = length[q]
          /\ seed[p] # seed[q] )
        => /\ h1[p] # h1[q]
           /\ (Done(p) /\ build # "x86_64") => result[p] # result[q]

\* Two returned calls on the same nonempty contents with different seeds.
C10_Witness ==
    /\ Done(1) /\ Done(2)
    /\ Contents(1) = Contents(2)
    /\ length[1] = length[2] /\ length[1] > 0
    /\ seed[1] # seed[2]
    /\ h1[1] # h1[2]

=============================================================================
